---------------------------- MODULE Spec2Model ----------------------------
(***************************************************************************)
(* ee-tile-request (src/main.py): the tile-URL pipeline get_tile, its two  *)
(* request surfaces (POST /tile and the interactive form) and the session  *)
(* initialisation ee_initialize.                                           *)
(*                                                                         *)
(* Python strings are sequences of one-character strings, so that          *)
(* startswith, endswith, strip, split and float are computed on the text.  *)
(* A Python value is a record [t |-> its type, v |-> its content].         *)
(***************************************************************************)
EXTENDS Integers, Sequences, FiniteSets, TLC

VARIABLES
    surface,     \* who calls: "direct" (get_tile), "api" (POST /tile), "gradio" (the form)
    req,         \* the surface's inputs, as received
    args,        \* get_tile's arguments (asset_id, vis_params, start_date, end_date, bbox)
    pc,          \* the position of the request in the code
    data_type,   \* get_tile's local data_type: the type the catalog declares
    ee_object,   \* get_tile's local ee_object
    vis,         \* get_tile's local vis_params once normalised to a mapping
    log,         \* the calls made to the Earth Engine client and the helpers, in order
    exc,         \* the exception raised inside get_tile, if any
    result,      \* the value returned by get_tile / get_tile_gradio
    response,    \* the HTTP response of POST /tile
    env,         \* os.environ and the arguments of ee_initialize (process-wide)
    credentials, \* ee.data._get_state().credentials
    ipc,         \* ee_initialize: the position of each caller
    reads,       \* ee_initialize: the credential sources each caller has read
    initLog      \* ee_initialize: the authentications and session openings, in order

pvars == <<surface, req, args, pc, data_type, ee_object, vis, log, exc, result, response>>
ivars == <<env, credentials, ipc, reads, initLog>>
vars == <<surface, req, args, pc, data_type, ee_object, vis, log, exc, result, response,
          env, credentials, ipc, reads, initLog>>

-----------------------------------------------------------------------------
(* Bounds of the model *)

\* longest vis_params string the callers send
MaxVisLen == 3
\* longest bbox list the callers send
MaxBBoxLen == 5
\* longest bbox text typed in the form
MaxBBoxStrLen == 4
\* number of concurrent callers of ee_initialize
NumCallers == 2

-----------------------------------------------------------------------------
(* String literals of src/main.py and of the messages of the libraries *)

\* line 128: asset_id.startswith("ee.")
ExprPrefix ==
    <<"e","e",".">>
\* line 219: result.startswith("Error")
ErrorMarker ==
    <<"E","r","r","o","r">>
\* line 194: f"Error: {str(e)}"
ErrorPrefix ==
    <<"E","r","r","o","r",":"," ">>
\* line 140
MsgUnsupportedDataType ==
    <<"U","n","s","u","p","p","o","r","t","e","d"," ","d","a","t","a"," ","t","y","p","e",
      ":"," ">>
\* line 153
MsgDateFilter ==
    <<"D","a","t","e"," ","f","i","l","t","e","r","i","n","g"," ","i","s"," ","o","n","l",
      "y"," ","s","u","p","p","o","r","t","e","d"," ","f","o","r"," ","I","m","a","g","e",
      "C","o","l","l","e","c","t","i","o","n","s">>
\* line 160
MsgBBoxLen ==
    <<"b","b","o","x"," ","m","u","s","t"," ","b","e"," ","a"," ","l","i","s","t"," ","o",
      "f"," ","4"," ","v","a","l","u","e","s",":"," ","[","w","e","s","t",","," ","s","o",
      "u","t","h",","," ","e","a","s","t",","," ","n","o","r","t","h","]">>
\* line 171
MsgBBoxUnsupported ==
    <<"B","o","u","n","d","i","n","g"," ","b","o","x"," ","f","i","l","t","e","r","i","n",
      "g"," ","n","o","t"," ","s","u","p","p","o","r","t","e","d"," ","f","o","r"," ">>
\* lines 182 and 186
MsgVisType ==
    <<"U","n","s","u","p","p","o","r","t","e","d"," ","v","i","s","_","p","a","r","a","m",
      "s"," ","t","y","p","e",":"," ">>
\* line 237
GradioBBoxError ==
    <<"E","r","r","o","r",":"," ","b","b","o","x"," ","m","u","s","t"," ","b","e"," ","c",
      "o","m","m","a","-","s","e","p","a","r","a","t","e","d"," ","n","u","m","b","e","r",
      "s"," ","(","w","e","s","t",",","s","o","u","t","h",",","e","a","s","t",",","n","o",
      "r","t","h",")">>
\* line 150
OpenStart ==
    <<"1","9","7","0","-","0","1","-","0","1">>
\* line 148
OpenEnd ==
    <<"2","1","0","0","-","0","1","-","0","1">>
\* type(vis_params) of a str, line 182
ReprStr ==
    <<"<","c","l","a","s","s"," ","'","s","t","r","'",">">>
\* type(vis_params) of a list, line 186
ReprList ==
    <<"<","c","l","a","s","s"," ","'","l","i","s","t","'",">">>
\* type(ee_object) of an ee.Number, line 171
ReprNumber ==
    <<"<","c","l","a","s","s"," ","'","e","e",".","e","e","_","n","u","m","b","e","r",".",
      "N","u","m","b","e","r","'",">">>
ReprImage ==
    <<"<","c","l","a","s","s"," ","'","e","e",".","i","m","a","g","e",".","I","m","a","g",
      "e","'",">">>
ReprImageCollection ==
    <<"<","c","l","a","s","s"," ","'","e","e",".","i","m","a","g","e","c","o","l","l","e",
      "c","t","i","o","n",".","I","m","a","g","e","C","o","l","l","e","c","t","i","o","n",
      "'",">">>
ReprFeatureCollection ==
    <<"<","c","l","a","s","s"," ","'","e","e",".","f","e","a","t","u","r","e","c","o","l",
      "l","e","c","t","i","o","n",".","F","e","a","t","u","r","e","C","o","l","l","e","c",
      "t","i","o","n","'",">">>
\* str(data_type) in the message of line 140
CharsFOLDER ==
    <<"F","O","L","D","E","R">>
CharsIMAGE ==
    <<"I","M","A","G","E">>
CharsIMAGE_COLLECTION ==
    <<"I","M","A","G","E","_","C","O","L","L","E","C","T","I","O","N">>
CharsTABLE ==
    <<"T","A","B","L","E">>
CharsTABLE_COLLECTION ==
    <<"T","A","B","L","E","_","C","O","L","L","E","C","T","I","O","N">>
\* the url_format the tiling backend returns at line 191
TileUrl ==
    <<"h","t","t","p","s",":","/","/","e","a","r","t","h","e","n","g","i","n","e",".","g",
      "o","o","g","l","e","a","p","i","s",".","c","o","m","/","v","1","/","m","/","t","i",
      "l","e","s","/","{","z","}","/","{","x","}","/","{","y","}">>
\* str(e) of the backend's exception on a catalog miss, line 131
MsgNotFound ==
    <<"A","s","s","e","t"," ","n","o","t"," ","f","o","u","n","d",".">>
\* str(e) of what evaluating the expression raises, line 129
MsgEval ==
    <<"n","a","m","e"," ","'","x","'"," ","i","s"," ","n","o","t"," ","d","e","f","i","n",
      "e","d">>
\* str(e) of ee.Geometry.BBox on bounds it rejects, line 162
MsgGeometry ==
    <<"G","e","o","m","e","t","r","y",".","B","B","o","x",":"," ","w","e","s","t"," ","m",
      "u","s","t"," ","n","o","t"," ","b","e"," ","n","a","n">>
\* str(e) of the tiling backend's exception, line 191
MsgBackend ==
    <<"B","a","c","k","e","n","d"," ","r","e","q","u","e","s","t"," ","f","a","i","l","e",
      "d",".">>
\* str(e) of json.JSONDecodeError, line 180
MsgJson ==
    <<"E","x","p","e","c","t","i","n","g"," ","p","r","o","p","e","r","t","y"," ","n","a",
      "m","e"," ","e","n","c","l","o","s","e","d"," ","i","n"," ","d","o","u","b","l","e",
      " ","q","u","o","t","e","s">>
\* str(e) of the palette validator, line 189
MsgPalette ==
    <<"T","h","e"," ","p","a","l","e","t","t","e"," ","m","u","s","t"," ","b","e"," ","a",
      " ","l","i","s","t"," ","o","f"," ","c","o","l","o","r","s"," ","o","r"," ","a"," ",
      "s","t","r","i","n","g">>
\* str(e) of the tile formatter for an object it cannot tile, line 191
MsgCannotAdd ==
    <<"C","a","n","n","o","t"," ","a","d","d"," ","a","n"," ","o","b","j","e","c","t"," ",
      "o","f"," ","t","h","i","s"," ","t","y","p","e"," ","t","o"," ","t","h","e"," ","m",
      "a","p",".">>

-----------------------------------------------------------------------------
(* Python values *)

None == [t |-> "NoneType", v |-> <<>>]
Str(s) == [t |-> "str", v |-> s]
List(s) == [t |-> "list", v |-> s]
Dict(m) == [t |-> "dict", v |-> m]

\* bool(x) as `if x:` and `x and ...` compute it: None, "", [] and {} are false
Truthy(x) ==
    CASE x.t = "NoneType" -> FALSE
      [] x.t = "str" -> Len(x.v) > 0
      [] x.t = "list" -> Len(x.v) > 0
      [] x.t = "dict" -> DOMAIN x.v # {}
      [] OTHER -> TRUE

\* str.startswith / str.endswith
StartsWith(s, p) == Len(s) >= Len(p) /\ SubSeq(s, 1, Len(p)) = p
EndsWith(s, p) == Len(s) >= Len(p) /\ SubSeq(s, Len(s) - Len(p) + 1, Len(s)) = p

\* every string over an alphabet, up to a length
Strs(alphabet, n) == UNION {[1..k -> alphabet] : k \in 0..n}

\* str(type(x))
TypeRepr(x) ==
    CASE x.t = "str" -> ReprStr
      [] x.t = "list" -> ReprList
      [] x.t = "Image" -> ReprImage
      [] x.t = "ImageCollection" -> ReprImageCollection
      [] x.t = "FeatureCollection" -> ReprFeatureCollection
      [] OTHER -> ReprNumber

-----------------------------------------------------------------------------
(* Exceptions *)

NoExc == [cls |-> "none", msg |-> <<>>]
Exc(cls, msg) == [cls |-> cls, msg |-> msg]

\* the classes raised in get_tile; SystemExit derives from BaseException only
ExceptionSubclasses ==
    {"ValueError", "EEException", "JSONDecodeError", "AttributeError", "NameError"}

\* `except Exception as e` matches e
\* (the same, were the handler `except ValueError`)
ExceptExceptionOnlyValueError(cls) == cls = "ValueError"
ExceptException(cls) == cls \in ExceptionSubclasses

\* f"Error: {str(e)}"
ErrorResult(e) == Str(ErrorPrefix \o e.msg)

-----------------------------------------------------------------------------
(* Earth Engine objects: the class and the filters applied so far *)

Tags == {"Image", "ImageCollection", "FeatureCollection", "Number"}
DataTypes == {"IMAGE", "IMAGE_COLLECTION", "TABLE", "TABLE_COLLECTION", "FOLDER"}

NoObj == [t |-> "unbound", id |-> <<>>, ops |-> <<>>]
EEObject(tag, id) == [t |-> tag, id |-> id, ops |-> <<>>]
Op(name, start, end, geometry) ==
    [op |-> name, start |-> start, end |-> end, geometry |-> geometry]
Apply(obj, op) == [obj EXCEPT !.ops = Append(@, op)]

DataTypeChars(declared) ==
    CASE declared = "IMAGE" -> CharsIMAGE
      [] declared = "IMAGE_COLLECTION" -> CharsIMAGE_COLLECTION
      [] declared = "TABLE" -> CharsTABLE
      [] declared = "TABLE_COLLECTION" -> CharsTABLE_COLLECTION
      [] OTHER -> CharsFOLDER

\* what a stage hands on: the calls it made, and its value or its exception
Ok(val, calls) == [ok |-> TRUE, val |-> val, exc |-> NoExc, calls |-> calls]
Fail(e, calls) == [ok |-> FALSE, val |-> NoObj, exc |-> e, calls |-> calls]

-----------------------------------------------------------------------------
(* get_tile, stage by stage *)

\* asset_id.startswith("ee.")
IsExpression(asset_id) == StartsWith(asset_id.v, ExprPrefix)

\* what the backend may answer: eval(asset_id) yields any object or raises
\* anything; ee.data.getAsset yields the declared type or raises on a miss
EvalOutcomes == Tags \cup {"NameError", "SystemExit"}
CatalogOutcomes == DataTypes \cup {"EEException"}

\* lines 132-140: the handle for a declared type
\* (the same, with TABLE in the IMAGE branch)
HandleForTypeTableAsImage(asset_id, declared) ==
    IF declared \in {"IMAGE", "TABLE"}
    THEN Ok(EEObject("Image", asset_id.v), <<"getAsset">>)
    ELSE IF declared = "IMAGE_COLLECTION"
    THEN Ok(EEObject("ImageCollection", asset_id.v), <<"getAsset">>)
    ELSE IF declared = "TABLE_COLLECTION"
    THEN Ok(EEObject("FeatureCollection", asset_id.v), <<"getAsset">>)
    ELSE Fail(Exc("ValueError", MsgUnsupportedDataType \o DataTypeChars(declared)),
              <<"getAsset">>)
HandleForType(asset_id, declared) ==
    IF declared = "IMAGE"
    THEN Ok(EEObject("Image", asset_id.v), <<"getAsset">>)
    ELSE IF declared = "IMAGE_COLLECTION"
    THEN Ok(EEObject("ImageCollection", asset_id.v), <<"getAsset">>)
    ELSE IF declared \in {"TABLE", "TABLE_COLLECTION"}
    THEN Ok(EEObject("FeatureCollection", asset_id.v), <<"getAsset">>)
    ELSE Fail(Exc("ValueError", MsgUnsupportedDataType \o DataTypeChars(declared)),
              <<"getAsset">>)

\* lines 128-140
ResolveStage(asset_id, outcome) ==
    IF IsExpression(asset_id)
    THEN IF outcome \in Tags
         THEN Ok(EEObject(outcome, asset_id.v), <<"eval">>)
         ELSE Fail(Exc(outcome, MsgEval), <<"eval">>)
    ELSE IF outcome \in DataTypes
         THEN HandleForType(asset_id, outcome)
         ELSE Fail(Exc(outcome, MsgNotFound), <<"getAsset">>)

\* lines 143-154
\* (the same, without the isinstance test of line 144)
DateStageAnyHandle(obj, start_date, end_date) ==
    IF Truthy(start_date) \/ Truthy(end_date)
    THEN Ok(Apply(obj, Op("filterDate",
                          IF Truthy(start_date) THEN start_date.v ELSE OpenStart,
                          IF Truthy(end_date) THEN end_date.v ELSE OpenEnd, <<>>)),
            <<"filterDate">>)
    ELSE Ok(obj, <<>>)
DateStage(obj, start_date, end_date) ==
    IF Truthy(start_date) \/ Truthy(end_date)
    THEN IF obj.t = "ImageCollection"
         THEN IF Truthy(start_date) /\ Truthy(end_date)
              THEN Ok(Apply(obj, Op("filterDate", start_date.v, end_date.v, <<>>)),
                      <<"filterDate">>)
              ELSE IF Truthy(start_date)
              THEN Ok(Apply(obj, Op("filterDate", start_date.v, OpenEnd, <<>>)),
                      <<"filterDate">>)
              ELSE Ok(Apply(obj, Op("filterDate", OpenStart, end_date.v, <<>>)),
                      <<"filterDate">>)
         ELSE Fail(Exc("ValueError", MsgDateFilter), <<>>)
    ELSE Ok(obj, <<>>)

\* lines 157-172; geometryOk: ee.Geometry.BBox(*bbox) did not raise
\* (the same, without the length test of line 158)
BBoxStageLengthUnchecked(obj, bbox, geometryOk) ==
    IF Truthy(bbox)
    THEN IF ~geometryOk
         THEN Fail(Exc("EEException", MsgGeometry), <<"BBox">>)
         ELSE IF obj.t \in {"ImageCollection", "FeatureCollection"}
         THEN Ok(Apply(obj, Op("filterBounds", <<>>, <<>>, bbox.v)),
                 <<"BBox", "filterBounds">>)
         ELSE IF obj.t = "Image"
         THEN Ok(Apply(obj, Op("clip", <<>>, <<>>, bbox.v)), <<"BBox", "clip">>)
         ELSE Fail(Exc("ValueError", MsgBBoxUnsupported \o TypeRepr(obj)), <<"BBox">>)
    ELSE Ok(obj, <<>>)
BBoxStage(obj, bbox, geometryOk) ==
    IF Truthy(bbox)
    THEN IF Len(bbox.v) # 4
         THEN Fail(Exc("ValueError", MsgBBoxLen), <<>>)
         ELSE IF ~geometryOk
         THEN Fail(Exc("EEException", MsgGeometry), <<"BBox">>)
         ELSE IF obj.t = "ImageCollection"
         THEN Ok(Apply(obj, Op("filterBounds", <<>>, <<>>, bbox.v)),
                 <<"BBox", "filterBounds">>)
         ELSE IF obj.t = "FeatureCollection"
         THEN Ok(Apply(obj, Op("filterBounds", <<>>, <<>>, bbox.v)),
                 <<"BBox", "filterBounds">>)
         ELSE IF obj.t = "Image"
         THEN Ok(Apply(obj, Op("clip", <<>>, <<>>, bbox.v)), <<"BBox", "clip">>)
         ELSE Fail(Exc("ValueError", MsgBBoxUnsupported \o TypeRepr(obj)), <<"BBox">>)
    ELSE Ok(obj, <<>>)

\* the mapping {} and the keys of a visualisation mapping
EmptyMapping == [k \in {} |-> "0"]
IsSpaces(s) == \A i \in 1..Len(s) : s[i] = " "

\* json.loads(s) on the alphabet of the model: "{", spaces, "}" is the only
\* document; anything else raises json.JSONDecodeError
JsonLoads(s) ==
    IF Len(s) >= 2 /\ s[1] = "{" /\ s[Len(s)] = "}" /\ IsSpaces(SubSeq(s, 2, Len(s) - 1))
    THEN Ok(EmptyMapping, <<>>)
    ELSE Fail(Exc("JSONDecodeError", MsgJson), <<>>)

\* lines 174-186
NormalizeVis(vis_params) ==
    LET vp == IF vis_params.t = "NoneType" THEN Dict(EmptyMapping) ELSE vis_params
    IN  IF vp.t = "str"
        THEN LET s == IF Len(vp.v) = 0 THEN <<"{", "}">> ELSE vp.v
             IN  IF StartsWith(s, <<"{">>) /\ EndsWith(s, <<"}">>)
                 THEN JsonLoads(s)
                 ELSE Fail(Exc("ValueError", MsgVisType \o TypeRepr(vp)), <<>>)
        ELSE IF vp.t = "dict"
        THEN Ok(vp.v, <<>>)
        ELSE Fail(Exc("ValueError", MsgVisType \o TypeRepr(vp)), <<>>)

\* lines 188-189: _validate_palette accepts a palette name or a list of colours
\* and returns the list of colours
ValidatePalette(mapping) ==
    IF "palette" \in DOMAIN mapping
    THEN IF mapping["palette"] \in {"named", "colors"}
         THEN Ok([mapping EXCEPT !["palette"] = "colors"], <<"_validate_palette">>)
         ELSE Fail(Exc("ValueError", MsgPalette), <<"_validate_palette">>)
    ELSE Ok(mapping, <<>>)

\* lines 174-189
VisStage(vis_params) ==
    LET n == NormalizeVis(vis_params)
    IN  IF n.ok THEN ValidatePalette(n.val) ELSE n

\* lines 191-192; backendOk: the tiling backend answered
FormatStage(obj, mapping, backendOk) ==
    IF obj.t = "Number"
    THEN Fail(Exc("AttributeError", MsgCannotAdd), <<"_get_tile_url_format">>)
    ELSE IF backendOk
    THEN Ok(Str(TileUrl), <<"_get_tile_url_format">>)
    ELSE Fail(Exc("EEException", MsgBackend), <<"_get_tile_url_format">>)

-----------------------------------------------------------------------------
(* get_tile_gradio: the conversions of the form's text fields *)

RECURSIVE LStrip(_)
LStrip(s) == IF s # <<>> /\ Head(s) = " " THEN LStrip(Tail(s)) ELSE s

RECURSIVE RStrip(_)
RStrip(s) == IF s # <<>> /\ s[Len(s)] = " " THEN RStrip(SubSeq(s, 1, Len(s) - 1)) ELSE s

\* str.strip()
Strip(s) == RStrip(LStrip(s))

\* str.split(sep): the pieces between the separators, empty pieces included
RECURSIVE Split(_, _)
Split(s, sep) ==
    IF \E i \in 1..Len(s) : s[i] = sep
    THEN LET i == CHOOSE j \in 1..Len(s) : s[j] = sep /\ \A k \in 1..(j - 1) : s[k] # sep
         IN  <<SubSeq(s, 1, i - 1)>> \o Split(SubSeq(s, i + 1, Len(s)), sep)
    ELSE <<s>>

Digits == <<"0", "1", "2", "3", "4", "5", "6", "7", "8", "9">>
IsDigit(c) == \E d \in 1..10 : Digits[d] = c
DigitValue(c) == (CHOOSE d \in 1..10 : Digits[d] = c) - 1

RECURSIVE DecimalValue(_)
DecimalValue(s) ==
    IF s = <<>> THEN 0 ELSE 10 * DecimalValue(SubSeq(s, 1, Len(s) - 1)) + DigitValue(s[Len(s)])

\* float(text) on signs, digits and spaces: the text, stripped, is an optional
\* sign and at least one digit; anything else raises ValueError
Unsigned(s) == IF s # <<>> /\ Head(s) \in {"+", "-"} THEN Tail(s) ELSE s
IsFloatText(text) ==
    LET u == Unsigned(Strip(text))
    IN  u # <<>> /\ \A i \in 1..Len(u) : IsDigit(u[i])
FloatValue(text) ==
    LET s == Strip(text)
    IN  IF s # <<>> /\ Head(s) = "-" THEN 0 - DecimalValue(Unsigned(s))
        ELSE DecimalValue(Unsigned(s))

\* lines 228-229
GradioDate(d) == IF Truthy(d) /\ Truthy(Str(Strip(d.v))) THEN Str(Strip(d.v)) ELSE None

\* lines 232-237: the bbox list, or the ValueError of float()
\* (the same, were only the first piece converted with float())
GradioBBoxFirstOnly(bbox_str) ==
    IF Truthy(bbox_str) /\ Truthy(Str(Strip(bbox_str.v)))
    THEN LET parts == Split(bbox_str.v, ",")
         IN  IF IsFloatText(Strip(parts[1]))
             THEN Ok(List([i \in 1..Len(parts) |->
                              IF IsFloatText(Strip(parts[i]))
                              THEN FloatValue(Strip(parts[i])) ELSE 0]), <<>>)
             ELSE Fail(Exc("ValueError", <<>>), <<>>)
    ELSE Ok(None, <<>>)
GradioBBox(bbox_str) ==
    IF Truthy(bbox_str) /\ Truthy(Str(Strip(bbox_str.v)))
    THEN LET parts == Split(bbox_str.v, ",")
         IN  IF \A i \in 1..Len(parts) : IsFloatText(Strip(parts[i]))
             THEN Ok(List([i \in 1..Len(parts) |-> FloatValue(Strip(parts[i]))]), <<>>)
             ELSE Fail(Exc("ValueError", <<>>), <<>>)
    ELSE Ok(None, <<>>)

-----------------------------------------------------------------------------
(* The requests *)

Args(asset_id, vis_params, start_date, end_date, bbox) ==
    [asset_id |-> asset_id, vis_params |-> vis_params, start_date |-> start_date,
     end_date |-> end_date, bbox |-> bbox]
NoArgs == Args(None, None, None, None, None)
NoResponse == [status_code |-> 0, detail |-> <<>>, tile_url |-> <<>>]

\* an expression identifier and two catalog references
AssetIds == {Str(<<"e", "e", ".", "x">>), Str(<<"e", "e">>), Str(<<"a">>)}
Dates == {None, Str(<<>>), Str(<<"2", "0", "2", "3">>)}
Ascending(n) == [i \in 1..n |-> i]
Descending(n) == [i \in 1..n |-> n - i]
BBoxes ==
    {None} \cup {List(Ascending(n)) : n \in 0..MaxBBoxLen}
           \cup {List(Descending(n)) : n \in 0..MaxBBoxLen}
VisDicts ==
    {Dict(EmptyMapping), Dict([k \in {"min"} |-> "0"]),
     Dict([k \in {"palette"} |-> "named"]), Dict([k \in {"palette"} |-> "bad"]),
     Dict([k \in {"min", "palette"} |-> IF k = "min" THEN "0" ELSE "colors"])}
VisStrs == {Str(s) : s \in Strs({"{", "}", " "}, MaxVisLen)}
\* TileRequest (lines 206-211) lets a mapping or None through; get_tile's own
\* callers may pass anything
ApiVis == {None} \cup VisDicts
DirectVis == {None} \cup VisDicts \cup VisStrs \cup {List(<<1>>)}

\* the form's text fields
GradioDates == {Str(<<>>), Str(<<" ">>), Str(<<"2", "0", "2", "3">>),
                Str(<<" ", "2", "0", "2", "3", " ">>)}
GradioBBoxStrs == {Str(s) : s \in Strs({"1", ",", " ", "a"}, MaxBBoxStrLen)}
GradioVis == {Str(<<>>), Str(<<"{", "}">>)}

Requests(ids, visSet, dateSet, bboxSet) ==
    {Args(a, v, s, e, b) : a \in ids, v \in visSet, s \in dateSet, e \in dateSet,
                           b \in bboxSet}

\* ee_initialize is not running
InitIdle ==
    /\ env = [service_account |-> "unset", token |-> "unset", auth_mode |-> "unset"]
    /\ credentials = "unset"
    /\ ipc = [c \in 1..NumCallers |-> "idle"]
    /\ reads = [c \in 1..NumCallers |-> {}]
    /\ initLog = <<>>

PipelineInit ==
    /\ args = NoArgs
    /\ pc = "entry"
    /\ data_type = "unset"
    /\ ee_object = NoObj
    /\ vis = EmptyMapping
    /\ log = <<>>
    /\ exc = NoExc
    /\ result = None
    /\ response = NoResponse

Init ==
    /\ surface \in {"direct", "api"}
    /\ req \in Requests(AssetIds, IF surface = "api" THEN ApiVis ELSE DirectVis,
                        Dates, BBoxes)
    /\ PipelineInit
    /\ InitIdle

InitGradio ==
    /\ surface = "gradio"
    /\ req \in Requests(AssetIds, GradioVis, GradioDates, GradioBBoxStrs)
    /\ PipelineInit
    /\ InitIdle

\* lines 193-194: the exception e raised in the try block either is caught and
\* turned into the result, or leaves get_tile
Raise(e) ==
    /\ exc' = e
    /\ IF ExceptException(e.cls)
       THEN pc' = "returned" /\ result' = ErrorResult(e)
       ELSE pc' = "raised" /\ result' = result

\* lines 128-192: the stages of the try block, in the order of the text
\* (the same, with the bounds block placed before the dates block)
NextStageBoundsFirst(stage) ==
    CASE stage = "resolve" -> "bbox"
      [] stage = "bbox" -> "dates"
      [] stage = "dates" -> "vis"
      [] OTHER -> "format"
NextStage(stage) ==
    CASE stage = "resolve" -> "dates"
      [] stage = "dates" -> "bbox"
      [] stage = "bbox" -> "vis"
      [] OTHER -> "format"

\* a stage's outcome r: go on to the next stage, or raise
Step(r) ==
    /\ log' = log \o r.calls
    /\ IF r.ok
       THEN pc' = NextStage(pc) /\ exc' = exc /\ result' = result
       ELSE Raise(r.exc)

\* a caller of get_tile
DirectCall ==
    /\ pc = "entry" /\ surface = "direct"
    /\ args' = req
    /\ pc' = "resolve"
    /\ log' = Append(log, "get_tile")
    /\ UNCHANGED <<surface, req, data_type, ee_object, vis, exc, result, response>>
    /\ UNCHANGED ivars

\* lines 215-218
ApiCall ==
    /\ pc = "entry" /\ surface = "api"
    /\ args' = Args(req.asset_id, req.vis_params, req.start_date, req.end_date, req.bbox)
    /\ pc' = "resolve"
    /\ log' = Append(log, "get_tile")
    /\ UNCHANGED <<surface, req, data_type, ee_object, vis, exc, result, response>>
    /\ UNCHANGED ivars

\* lines 225-239
GradioCall ==
    /\ pc = "entry" /\ surface = "gradio"
    /\ LET b == GradioBBox(req.bbox)
       IN  IF b.ok
           THEN /\ args' = Args(req.asset_id, req.vis_params, GradioDate(req.start_date),
                                GradioDate(req.end_date), b.val)
                /\ pc' = "resolve"
                /\ log' = Append(log, "get_tile")
                /\ result' = result
           ELSE /\ args' = args
                /\ pc' = "returned"
                /\ log' = log
                /\ result' = Str(GradioBBoxError)
    /\ UNCHANGED <<surface, req, data_type, ee_object, vis, exc, response>>
    /\ UNCHANGED ivars

\* lines 128-140
Resolve ==
    /\ pc = "resolve"
    /\ \E outcome \in (IF IsExpression(args.asset_id) THEN EvalOutcomes
                       ELSE CatalogOutcomes) :
          LET r == ResolveStage(args.asset_id, outcome)
          IN  /\ Step(r)
              /\ ee_object' = IF r.ok THEN r.val ELSE ee_object
              /\ data_type' = IF outcome \in DataTypes THEN outcome ELSE data_type
    /\ UNCHANGED <<surface, req, args, vis, response>>
    /\ UNCHANGED ivars

\* lines 143-154
DateFilter ==
    /\ pc = "dates"
    /\ LET r == DateStage(ee_object, args.start_date, args.end_date)
       IN  /\ Step(r)
           /\ ee_object' = IF r.ok THEN r.val ELSE ee_object
    /\ UNCHANGED <<surface, req, args, data_type, vis, response>>
    /\ UNCHANGED ivars

\* lines 157-172
BBoxFilter ==
    /\ pc = "bbox"
    /\ \E geometryOk \in BOOLEAN :
          LET r == BBoxStage(ee_object, args.bbox, geometryOk)
          IN  /\ Step(r)
              /\ ee_object' = IF r.ok THEN r.val ELSE ee_object
    /\ UNCHANGED <<surface, req, args, data_type, vis, response>>
    /\ UNCHANGED ivars

\* lines 174-189
VisNormalize ==
    /\ pc = "vis"
    /\ LET r == VisStage(args.vis_params)
       IN  /\ Step(r)
           /\ vis' = IF r.ok THEN r.val ELSE vis
    /\ UNCHANGED <<surface, req, args, data_type, ee_object, response>>
    /\ UNCHANGED ivars

\* lines 191-192
Format ==
    /\ pc = "format"
    /\ \E backendOk \in BOOLEAN :
          LET r == FormatStage(ee_object, vis, backendOk)
          IN  /\ log' = log \o r.calls
              /\ IF r.ok
                 THEN pc' = "returned" /\ result' = r.val /\ exc' = exc
                 ELSE Raise(r.exc)
    /\ UNCHANGED <<surface, req, args, data_type, ee_object, vis, response>>
    /\ UNCHANGED ivars

\* lines 219-221
\* (the same, without the test of line 219)
ApiResponseAlways200(res) == [status_code |-> 200, detail |-> <<>>, tile_url |-> res.v]
ApiResponse(res) ==
    IF res.t = "str" /\ StartsWith(res.v, ErrorMarker)
    THEN [status_code |-> 400, detail |-> res.v, tile_url |-> <<>>]
    ELSE [status_code |-> 200, detail |-> <<>>, tile_url |-> res.v]

ApiRespond ==
    /\ pc = "returned" /\ surface = "api"
    /\ response' = ApiResponse(result)
    /\ pc' = "responded"
    /\ UNCHANGED <<surface, req, args, data_type, ee_object, vis, log, exc, result>>
    /\ UNCHANGED ivars

Next ==
    \/ DirectCall
    \/ ApiCall
    \/ Resolve
    \/ DateFilter
    \/ BBoxFilter
    \/ VisNormalize
    \/ Format
    \/ ApiRespond

Spec == Init /\ [][Next]_vars

NextGradio ==
    \/ GradioCall
    \/ Resolve
    \/ DateFilter
    \/ BBoxFilter
    \/ VisNormalize
    \/ Format

SpecGradio == InitGradio /\ [][NextGradio]_vars

-----------------------------------------------------------------------------
(* ee_initialize (lines 39-122), called by NumCallers threads; a step is one *)
(* read of the process-wide state or one call of the Earth Engine client     *)

Callers == 1..NumCallers

\* what os.environ and the arguments hold
ServiceAccountValues == {"unset", "valid", "invalid_json", "no_client_email"}
TokenValues == {"unset", "valid", "invalid"}
AuthModes == {"unset", "notebook"}

InitEE ==
    /\ env \in [service_account : ServiceAccountValues, token : TokenValues,
                auth_mode : AuthModes]
    /\ credentials = "unset"
    /\ ipc = [c \in Callers |-> "idle"]
    /\ reads = [c \in Callers |-> {}]
    /\ initLog = <<>>
    /\ surface = "direct"
    /\ req = NoArgs
    /\ PipelineInit

Goto(c, line) == ipc' = [ipc EXCEPT ![c] = line]
Read(c, key) == reads' = [reads EXCEPT ![c] = @ \cup {key}]
Called(c, call, ok) == [caller |-> c, call |-> call, ok |-> ok]

\* line 197, or any other caller
Call(c) ==
    /\ ipc[c] = "idle"
    /\ Goto(c, "line69")
    /\ UNCHANGED <<env, credentials, reads, initLog>>
    /\ UNCHANGED pvars

\* lines 69-70: where a caller goes from the check
\* (the same, without the return of line 70)
AfterCheckNoReturn(creds) == "line72"
AfterCheck(creds) == IF creds # "unset" THEN "returned" ELSE "line72"

CheckCredentials(c) ==
    /\ ipc[c] = "line69"
    /\ Goto(c, AfterCheck(credentials))
    /\ UNCHANGED <<env, credentials, reads, initLog>>
    /\ UNCHANGED pvars

\* lines 72-82: ValueError on a key that is no JSON or holds no client_email
ReadServiceAccount(c) ==
    /\ ipc[c] = "line72"
    /\ Read(c, "EE_SERVICE_ACCOUNT")
    /\ Goto(c, CASE env.service_account = "unset" -> "line86"
                 [] env.service_account = "valid" -> "line83"
                 [] OTHER -> "raised")
    /\ UNCHANGED <<env, credentials, initLog>>
    /\ UNCHANGED pvars

\* ee.Initialize(...) by caller c, at lines 83, 99, 114 and 122: it opens the
\* session and stores its credentials, or raises
EEInitialize(c, kind, ok) ==
    /\ initLog' = Append(initLog, Called(c, "Initialize", ok))
    /\ credentials' = IF ok THEN kind ELSE credentials
    /\ Goto(c, IF ok THEN "returned" ELSE "raised")

\* ee.Authenticate(...) by caller c, at lines 113 and 121
EEAuthenticate(c, ok, next) ==
    /\ initLog' = Append(initLog, Called(c, "Authenticate", ok))
    /\ Goto(c, IF ok THEN next ELSE "raised")

\* lines 83-84
InitServiceAccount(c) ==
    /\ ipc[c] = "line83"
    /\ \E ok \in BOOLEAN : EEInitialize(c, "service_account", ok)
    /\ UNCHANGED <<env, reads>>
    /\ UNCHANGED pvars

\* lines 86-97: json.loads and the four keys of the stored token
ReadToken(c) ==
    /\ ipc[c] = "line86"
    /\ Read(c, "EARTHENGINE_TOKEN")
    /\ Goto(c, CASE env.token = "unset" -> "line110"
                 [] env.token = "valid" -> "line99"
                 [] OTHER -> "raised")
    /\ UNCHANGED <<env, credentials, initLog>>
    /\ UNCHANGED pvars

\* lines 99-100
InitToken(c) ==
    /\ ipc[c] = "line99"
    /\ \E ok \in BOOLEAN : EEInitialize(c, "token", ok)
    /\ UNCHANGED <<env, reads>>
    /\ UNCHANGED pvars

\* lines 102-110
ReadProject(c) ==
    /\ ipc[c] = "line110"
    /\ Read(c, "EE_PROJECT_ID")
    /\ Goto(c, IF env.auth_mode = "unset" THEN "line112" ELSE "line121")
    /\ UNCHANGED <<env, credentials, initLog>>
    /\ UNCHANGED pvars

\* lines 112-117: the second look at the credentials
Recheck(c) ==
    /\ ipc[c] = "line112"
    /\ Goto(c, IF credentials = "unset" THEN "line113" ELSE "line121")
    /\ UNCHANGED <<env, credentials, reads, initLog>>
    /\ UNCHANGED pvars

\* line 113
Authenticate113(c) ==
    /\ ipc[c] = "line113"
    /\ \E ok \in BOOLEAN : EEAuthenticate(c, ok, "line114")
    /\ UNCHANGED <<env, credentials, reads>>
    /\ UNCHANGED pvars

\* lines 114-115
Initialize114(c) ==
    /\ ipc[c] = "line114"
    /\ \E ok \in BOOLEAN : EEInitialize(c, "persistent", ok)
    /\ UNCHANGED <<env, reads>>
    /\ UNCHANGED pvars

\* lines 119-121
Authenticate121(c) ==
    /\ ipc[c] = "line121"
    /\ \E ok \in BOOLEAN : EEAuthenticate(c, ok, "line122")
    /\ UNCHANGED <<env, credentials, reads>>
    /\ UNCHANGED pvars

\* line 122
Initialize122(c) ==
    /\ ipc[c] = "line122"
    /\ \E ok \in BOOLEAN : EEInitialize(c, "persistent", ok)
    /\ UNCHANGED <<env, reads>>
    /\ UNCHANGED pvars

NextEE ==
    \E c \in Callers :
        \/ Call(c)
        \/ CheckCredentials(c)
        \/ ReadServiceAccount(c)
        \/ InitServiceAccount(c)
        \/ ReadToken(c)
        \/ InitToken(c)
        \/ ReadProject(c)
        \/ Recheck(c)
        \/ Authenticate113(c)
        \/ Initialize114(c)
        \/ Authenticate121(c)
        \/ Initialize122(c)

SpecEE == InitEE /\ [][NextEE]_vars

-----------------------------------------------------------------------------
(* The claims *)

Returned == pc \in {"returned", "responded"}
Resolved == ee_object.t \in Tags
DatesGiven == Truthy(args.start_date) \/ Truthy(args.end_date)
PastDates == pc \notin {"entry", "resolve", "dates"}
PastBBox == pc \notin {"entry", "resolve", "dates", "bbox"}
ErrorOf(msg) == Str(ErrorPrefix \o msg)
Last(s) == s[Len(s)]

\* C1, as stated: whatever is raised at any stage of get_tile, get_tile does
\* not let it propagate: it returns the string "Error: " followed by the
\* message of the failure.
C1_NeverPropagates ==
    exc # NoExc =>
        /\ Returned
        /\ result = ErrorOf(exc.msg)
        /\ StartsWith(result.v, ErrorMarker)

\* C1, amended: every failure that is an instance of Exception is returned as
\* the string "Error: " followed by its message; what leaves get_tile is an
\* exception outside Exception (SystemExit), and nothing else.
C1_ExceptionsBecomeErrorStrings ==
    /\ (exc.cls \in ExceptionSubclasses) =>
           /\ Returned
           /\ result = ErrorOf(exc.msg)
           /\ StartsWith(result.v, ErrorMarker)
    /\ pc = "raised" => exc.cls = "SystemExit"

\* C1, witness: a failure of the tiling backend, the last stage, was caught.
C1_Witness ==
    /\ pc = "returned"
    /\ exc = Exc("EEException", MsgBackend)
    /\ result = ErrorOf(MsgBackend)

\* C2: POST /tile answers 400, with the result as its detail, exactly when
\* get_tile's result begins with "Error", and 200 with {"tile_url": result}
\* otherwise; a failure of the pipeline is never a 200 and a tile URL never
\* a 400.
C2_StatusFollowsMarker ==
    pc = "responded" =>
        /\ StartsWith(result.v, ErrorMarker) =>
               response = [status_code |-> 400, detail |-> result.v, tile_url |-> <<>>]
        /\ ~StartsWith(result.v, ErrorMarker) =>
               response = [status_code |-> 200, detail |-> <<>>, tile_url |-> result.v]
        /\ exc # NoExc => response.status_code = 400
        /\ exc = NoExc => response.status_code = 200 /\ response.tile_url = TileUrl

\* C2, witness: a pipeline failure answered with 400.
C2_Witness ==
    /\ pc = "responded"
    /\ exc = Exc("ValueError", MsgDateFilter)
    /\ response.status_code = 400

\* C3: the session is opened at most once, however the callers of
\* ee_initialize interleave.
C3_SingleFlight ==
    Cardinality({i \in DOMAIN initLog :
                    initLog[i].call = "Initialize" /\ initLog[i].ok}) <= 1

\* C4, as stated: a bbox of a length other than 4 always makes get_tile fail
\* with the invalid-bounds error.
C4_WrongLengthAlwaysFails ==
    (pc \in {"returned", "responded", "raised"}
        /\ args.bbox.t = "list" /\ Len(args.bbox.v) # 4) =>
            /\ exc = Exc("ValueError", MsgBBoxLen)
            /\ result = ErrorOf(MsgBBoxLen)

\* C4, amended: once the asset is resolved and the dates are dealt with (none
\* given, or the handle is an ImageCollection), a non-empty bbox of a length
\* other than 4 makes get_tile fail with the invalid-bounds error, whatever the
\* handle; an empty bbox is treated as absent; a bbox of length 4 is handed to
\* the filter as it is, whatever the order of its values.
C4_NonEmptyWrongLengthFails ==
    /\ (PastBBox /\ Resolved /\ (DatesGiven => ee_object.t = "ImageCollection")
            /\ Truthy(args.bbox) /\ Len(args.bbox.v) # 4) =>
           /\ Returned
           /\ exc = Exc("ValueError", MsgBBoxLen)
           /\ result = ErrorOf(MsgBBoxLen)
    /\ (args.bbox.t = "list" /\ Len(args.bbox.v) \in {0, 4}) => exc.msg # MsgBBoxLen
    /\ (pc = "vis" /\ args.bbox.t = "list" /\ Len(args.bbox.v) = 0) =>
           \A i \in DOMAIN ee_object.ops : ee_object.ops[i].geometry = <<>>
    /\ (pc = "vis" /\ Truthy(args.bbox)) =>
           /\ Len(args.bbox.v) = 4
           /\ ee_object.ops # <<>>
           /\ Last(ee_object.ops).op \in {"filterBounds", "clip"}
           /\ Last(ee_object.ops).geometry = args.bbox.v

\* C4, witness: five bounds on a feature collection.
C4_Witness ==
    /\ pc = "returned"
    /\ ee_object.t = "FeatureCollection"
    /\ Len(args.bbox.v) = 5
    /\ result = ErrorOf(MsgBBoxLen)

\* C4, second witness: bounds with west > east and south > north are applied.
C4_WitnessSwapped ==
    /\ pc = "vis"
    /\ args.bbox = List(Descending(4))
    /\ Last(ee_object.ops).geometry = <<3, 2, 1, 0>>

\* C5: a vis_params that is None, "" or only spaces is normalised to the empty
\* mapping and raises nothing.
C5_BlankVisIsEmptyMapping ==
    (args.vis_params.t = "NoneType"
        \/ (args.vis_params.t = "str" /\ IsSpaces(args.vis_params.v))) =>
            /\ exc.msg # MsgVisType \o ReprStr
            /\ pc = "format" => vis = EmptyMapping

\* C6: with a start or an end date and a handle that is no ImageCollection,
\* get_tile fails with the date-filter error, whatever the other arguments,
\* and no date filter is applied.
C6_DatesNeedCollection ==
    (PastDates /\ Resolved /\ ee_object.t # "ImageCollection" /\ DatesGiven) =>
        /\ Returned
        /\ exc = Exc("ValueError", MsgDateFilter)
        /\ result = ErrorOf(MsgDateFilter)
        /\ ee_object.ops = <<>>
        /\ \A i \in DOMAIN log : log[i] # "filterDate"

\* C6, witness: an end date alone on an Image, with a bbox and a vis_params
\* that are invalid too.
C6_Witness ==
    /\ pc = "returned"
    /\ ee_object.t = "Image"
    /\ ~Truthy(args.start_date) /\ Truthy(args.end_date)
    /\ Truthy(args.bbox) /\ Len(args.bbox.v) # 4
    /\ args.vis_params.t = "list"
    /\ result = ErrorOf(MsgDateFilter)

\* C7: a call of ee_initialize that finds credentials returns at once: it
\* reads no credential source, authenticates nothing and opens no session;
\* a session once opened stays, so every later call is such a call.
C7_Idempotent ==
    [][/\ \A c \in Callers :
              (ipc[c] = "line69" /\ credentials # "unset" /\ ipc'[c] # ipc[c]) =>
                  /\ ipc'[c] = "returned"
                  /\ UNCHANGED <<env, credentials, reads, initLog>>
       /\ credentials # "unset" => credentials' # "unset"
       /\ (initLog' # initLog /\ Last(initLog').call = "Initialize" /\ Last(initLog').ok)
              => credentials' # "unset"]_vars

\* C7, witness: a caller has returned from the check, having read nothing.
C7_Witness ==
    \E c \in Callers :
        /\ ipc[c] = "returned"
        /\ reads[c] = {}
        /\ credentials # "unset"
        /\ \A i \in DOMAIN initLog : initLog[i].caller # c

\* C8: for a catalog reference the handle follows from the declared type
\* alone (IMAGE: Image, IMAGE_COLLECTION: ImageCollection, TABLE and
\* TABLE_COLLECTION: FeatureCollection; any other type, or a miss, fails);
\* for an expression the catalog is not asked.
C8_HandleFollowsDeclaredType ==
    (pc \notin {"entry", "resolve"}) =>
        IF StartsWith(args.asset_id.v, ExprPrefix)
        THEN /\ data_type = "unset"
             /\ \A i \in DOMAIN log : log[i] # "getAsset"
        ELSE /\ log[2] = "getAsset"
             /\ data_type = "IMAGE" => ee_object.t = "Image"
             /\ data_type = "IMAGE_COLLECTION" => ee_object.t = "ImageCollection"
             /\ data_type \in {"TABLE", "TABLE_COLLECTION"}
                    => ee_object.t = "FeatureCollection"
             /\ data_type \in {"IMAGE", "IMAGE_COLLECTION", "TABLE", "TABLE_COLLECTION"}
                    => ee_object.id = args.asset_id.v
             /\ data_type \notin {"IMAGE", "IMAGE_COLLECTION", "TABLE", "TABLE_COLLECTION"}
                    => /\ Returned
                       /\ ee_object = NoObj
                       /\ exc # NoExc
                       /\ result = ErrorOf(exc.msg)
                       /\ Len(log) = 2

\* C8, witness: a TABLE resolved to a FeatureCollection.
C8_Witness ==
    /\ pc = "dates"
    /\ args.asset_id = Str(<<"e", "e">>)
    /\ data_type = "TABLE"
    /\ ee_object.t = "FeatureCollection"

\* The bbox text is malformed: it is not blank, and one of the pieces between
\* its commas is not spaces, an optional sign, digits, spaces.
IsNumberPiece(s, i, j) ==
    \E a \in i..j : \E b \in a..j :
        /\ \A k \in i..(a - 1) : s[k] = " "
        /\ \A k \in (b + 1)..j : s[k] = " "
        /\ \/ \A k \in a..b : s[k] \in {"0", "1", "2", "3", "4", "5", "6", "7", "8", "9"}
           \/ /\ a < b
              /\ s[a] \in {"+", "-"}
              /\ \A k \in (a + 1)..b :
                     s[k] \in {"0", "1", "2", "3", "4", "5", "6", "7", "8", "9"}
IsPiece(s, i, j) ==
    /\ i = 1 \/ s[i - 1] = ","
    /\ j = Len(s) \/ s[j + 1] = ","
    /\ \A k \in i..j : s[k] # ","
IsBlank(s) == \A k \in 1..Len(s) : s[k] = " "
IsMalformed(s) ==
    /\ ~IsBlank(s)
    /\ \E i \in 1..(Len(s) + 1) : \E j \in (i - 1)..Len(s) :
           IsPiece(s, i, j) /\ ~IsNumberPiece(s, i, j)

\* C9: the form answers a malformed bbox text with its fixed error string and
\* does not call get_tile; a blank or empty bbox text and blank dates reach
\* get_tile as None.
C9_MalformedBBoxStopsAtTheForm ==
    (surface = "gradio" /\ pc # "entry") =>
        /\ IsMalformed(req.bbox.v) =>
               /\ pc = "returned"
               /\ result = Str(GradioBBoxError)
               /\ log = <<>>
               /\ args = NoArgs
        /\ ~IsMalformed(req.bbox.v) => (log # <<>> /\ log[1] = "get_tile")
        /\ IsBlank(req.bbox.v) => args.bbox = None
        /\ (~IsMalformed(req.bbox.v) /\ IsBlank(req.start_date.v)) => args.start_date = None
        /\ (~IsMalformed(req.bbox.v) /\ IsBlank(req.end_date.v)) => args.end_date = None

\* C9, witness: "1,a" typed as the bbox.
C9_Witness ==
    /\ surface = "gradio"
    /\ req.bbox = Str(<<"1", ",", "a">>)
    /\ pc = "returned"
    /\ result = Str(GradioBBoxError)
    /\ log = <<>>

\* the stage a call belongs to, and the stage an exception comes from
StageOf(call) ==
    CASE call = "get_tile" -> 0
      [] call \in {"eval", "getAsset"} -> 1
      [] call = "filterDate" -> 2
      [] call \in {"BBox", "filterBounds", "clip"} -> 3
      [] call = "_validate_palette" -> 4
      [] OTHER -> 5
FailedStage(e) ==
    CASE e.msg \in {MsgEval, MsgNotFound} -> 1
      [] e.msg = MsgUnsupportedDataType \o CharsFOLDER -> 1
      [] e.msg = MsgDateFilter -> 2
      [] e.msg \in {MsgBBoxLen, MsgGeometry, MsgBBoxUnsupported \o ReprNumber} -> 3
      [] e.msg \in {MsgVisType \o ReprStr, MsgVisType \o ReprList, MsgJson, MsgPalette} -> 4
      [] OTHER -> 5
BadDates == DatesGiven /\ ee_object.t # "ImageCollection"
BadBBox == Truthy(args.bbox) /\ Len(args.bbox.v) # 4
BadVis ==
    \/ args.vis_params.t = "list"
    \/ args.vis_params.t = "str" /\ args.vis_params.v # <<>>
           /\ (Head(args.vis_params.v) # "{" \/ Last(args.vis_params.v) # "}")
    \/ args.vis_params.t = "dict" /\ "palette" \in DOMAIN args.vis_params.v
           /\ args.vis_params.v["palette"] = "bad"

\* C10: the stages run in the order resolution, dates, bounds, visualisation
\* and palette, tile URL; the first failure ends the call, so that no call of
\* a later stage is made and, of several invalid arguments, the earliest
\* stage's failure is the one returned; on a collection the date filter is
\* applied before the bounds filter.
C10_StagesInOrder ==
    /\ \A i \in DOMAIN log : \A j \in DOMAIN log :
           i < j => StageOf(log[i]) <= StageOf(log[j])
    /\ exc # NoExc =>
           /\ pc \in {"returned", "responded", "raised"}
           /\ \A i \in DOMAIN log : StageOf(log[i]) <= FailedStage(exc)
    /\ (exc # NoExc /\ Resolved /\ BadDates) => exc.msg = MsgDateFilter
    /\ (exc # NoExc /\ Resolved /\ ~BadDates /\ BadBBox) => exc.msg = MsgBBoxLen
    /\ (exc # NoExc /\ Resolved /\ ~BadDates /\ ~BadBBox /\ BadVis) =>
           FailedStage(exc) \in {3, 4}
    /\ (Resolved /\ BadDates /\ PastDates) => exc # NoExc
    /\ (Resolved /\ BadBBox /\ PastBBox) => exc # NoExc
    /\ (Resolved /\ BadVis /\ pc \in {"format", "returned", "responded"}) => exc # NoExc
    /\ (Len(ee_object.ops) = 2) =>
           /\ ee_object.ops[1].op = "filterDate"
           /\ ee_object.ops[2].op = "filterBounds"
           /\ ee_object.t = "ImageCollection"

\* C10, witness: a bad bbox and a bad vis_params on a collection whose date
\* filter was applied: the failure returned is the bounds stage's.
C10_Witness ==
    /\ pc = "returned"
    /\ ee_object.t = "ImageCollection"
    /\ Len(ee_object.ops) = 1 /\ ee_object.ops[1].op = "filterDate"
    /\ BadBBox /\ BadVis
    /\ log = <<"get_tile", "getAsset", "filterDate">>
    /\ result = ErrorOf(MsgBBoxLen)

\* C10, second witness: both filters applied, dates first, and a URL returned.
C10_WitnessBothFilters ==
    /\ pc = "returned"
    /\ exc = NoExc
    /\ Len(ee_object.ops) = 2
    /\ log = <<"get_tile", "getAsset", "filterDate", "BBox", "filterBounds",
               "_get_tile_url_format">>
    /\ result = Str(TileUrl)

=============================================================================
